---- MODULE Spec2Model ----
(***************************************************************************)
(* State-machine model of the EFA transport core of Mooncake:              *)
(*   efa_context.cpp   EfaEndpointStore, EfaContext                        *)
(*   efa_endpoint.cpp  EfaEndPoint                                         *)
(* The libfabric provider, the handshake transport and the caller are the  *)
(* environment: their answers are drawn from small sets by the actions.    *)
(***************************************************************************)
EXTENDS Integers, Sequences, FiniteSets, TLC

VARIABLES
    hints_, fi_info_, fabric_, domain_, av_, cq_list_,   \* EfaContext handles
    mr_map_,                                             \* EfaContext::mr_map_
    endpoint_store_,                                     \* EfaEndpointStore::endpoints_ (NULL before construct)
    eps,                                                 \* heap of EfaEndPoint objects, by instance id
    av_tab,                                              \* provider: contents of the address vector
    fi_open,                                             \* provider: fids currently open
    th,                                                  \* caller threads inside EfaContext::endpoint
    call,                                                \* the last completed call: inputs, pre-state, outputs
    crashed                                              \* the process has faulted

ctxvars == <<hints_, fi_info_, fabric_, domain_, av_, cq_list_, mr_map_, endpoint_store_>>
vars == <<hints_, fi_info_, fabric_, domain_, av_, cq_list_, mr_map_, endpoint_store_,
          eps, av_tab, fi_open, th, call, crashed>>

----------------------------------------------------------------------------
\* Bounds of the model.

\* longest slice list handed to submitPostSend
MaxSlices == 2
\* cap on the outstanding-work counter wr_depth_
MaxWrDepth == 2
\* capacity of the address vector (av_attr.count)
MaxAvEntries == 2
\* bytes of the address buffer resized before fi_getname (64 in the code)
AddrBufLen == 2
\* largest num_cq_list handed to EfaContext::construct
MaxCq == 2
\* caller threads running EfaContext::endpoint concurrently
MaxThreads == 2
\* EfaEndPoint objects ever allocated by EfaContext::endpoint
MaxEps == 3
\* distinct buffer start addresses handed to registerMemoryRegion
MaxAddrs == 2
\* memory-region handles the provider keeps open at once
MaxMr == 2
\* endpoint objects a context creates over its life
MaxLifeEps == 2
\* globalConfig().max_mr_size
max_mr_size == 2

----------------------------------------------------------------------------
\* Values.

NULL == <<"null", 0>>
Fid(kind, n) == <<kind, n>>

\* libfabric's FI_ADDR_UNSPEC and FI_ADDR_NOTAVAIL are both (uint64_t)-1
FI_ADDR_UNSPEC == 0 - 1

INITIALIZING == "INITIALIZING"
UNCONNECTED == "UNCONNECTED"
CONNECTED == "CONNECTED"

RET_OK == "0"
ERR_CONTEXT == "ERR_CONTEXT"
ERR_ENDPOINT == "ERR_ENDPOINT"
ERR_INVALID_ARGUMENT == "ERR_INVALID_ARGUMENT"
ERR_REJECT_HANDSHAKE == "ERR_REJECT_HANDSHAKE"
\* an error of the handshake transport (EfaTransport::sendHandshake)
ERR_SOCKET == "ERR_SOCKET"

\* fi_write results
FI_SUCCESS == "FI_SUCCESS"
FI_EAGAIN == "FI_EAGAIN"
FI_EIO == "FI_EIO"

\* strings are sequences of one-character strings
LocalServerName == <<"A">>
DeviceName == <<"e">>
\* EfaContext::nicPath: engine_.local_server_name() + "@" + device_name_
nicPath == LocalServerName \o <<"@">> \o DeviceName

PathB == <<"B", "@", "e">>
\* a path with no '@'
PathNoAt == <<"B">>
PeerPaths == {nicPath, PathB, PathNoAt}

\* address reported by fi_getname for an endpoint
LocalName == <<10, 171>>

\* hex strings a peer may put in a handshake descriptor
PeerReplies == {<< >>, <<"0", "1", "f", "E">>, <<"z", "2", "7">>}

----------------------------------------------------------------------------
\* Hex conversion.

HexLower == <<"0", "1", "2", "3", "4", "5", "6", "7", "8", "9", "a", "b", "c", "d", "e", "f">>
HexUpper == <<"A", "B", "C", "D", "E", "F">>

\* value of a character as a base-16 digit (strtol accepts both cases), -1 if none
XVal(c) ==
    IF \E i \in 1..16 : HexLower[i] = c
    THEN (CHOOSE i \in 1..16 : HexLower[i] = c) - 1
    ELSE IF \E i \in 1..6 : HexUpper[i] = c
    THEN (CHOOSE i \in 1..6 : HexUpper[i] = c) + 9
    ELSE 0 - 1

\* (uint8_t)strtol(byte_str, nullptr, 16) of a string of one or two characters:
\* the longest prefix of hex digits is converted, no digit gives 0
StrtolByte(s) ==
    IF XVal(s[1]) < 0 THEN 0
    ELSE IF Len(s) >= 2 /\ XVal(s[2]) >= 0 THEN (16 * XVal(s[1]) + XVal(s[2])) % 256
    ELSE XVal(s[1])

\* the decoding loop of insertPeerAddr: one byte per substr(i, 2), i = 0, 2, 4, ...
HexDecode(str) ==
    [k \in 1..((Len(str) + 1) \div 2) |->
        StrtolByte(SubSeq(str, 2 * k - 1, IF 2 * k <= Len(str) THEN 2 * k ELSE Len(str)))]

\* std::hex << std::setw(2) << std::setfill('0') << (int)byte
HexByte(b) == <<HexLower[(b \div 16) + 1], HexLower[(b % 16) + 1]>>

RECURSIVE HexEncode(_)
HexEncode(bytes) ==
    IF bytes = << >> THEN << >>
    ELSE HexByte(Head(bytes)) \o HexEncode(Tail(bytes))

\* getServerNameFromNicPath / getNicNameFromNicPath: the parts around the first '@'
AtPos(path) ==
    IF \E i \in 1..Len(path) : path[i] = "@"
    THEN CHOOSE i \in 1..Len(path) : path[i] = "@" /\ \A j \in 1..(i - 1) : path[j] # "@"
    ELSE 0
getServerNameFromNicPath(path) ==
    IF AtPos(path) = 0 THEN << >> ELSE SubSeq(path, 1, AtPos(path) - 1)
getNicNameFromNicPath(path) ==
    IF AtPos(path) = 0 THEN << >> ELSE SubSeq(path, AtPos(path) + 1, Len(path))

----------------------------------------------------------------------------
\* EfaEndPoint.

\* the object after EfaEndPoint::EfaEndPoint
NewEndPoint ==
    [status_ |-> INITIALIZING, ep_ |-> NULL, tx_cq_ |-> NULL, rx_cq_ |-> NULL,
     peer_fi_addr_ |-> FI_ADDR_UNSPEC, local_addr_ |-> << >>, wr_depth_ |-> 0,
     peer_nic_path_ |-> << >>]

connected(e) == e.status_ = CONNECTED

\* steps of EfaEndPoint::construct at which the provider may fail
ConstructFaults == {"none", "fi_endpoint", "bind_av", "bind_tx", "bind_rx", "fi_enable", "fi_getname"}

Zeros(n) == [k \in 1..n |-> 0]

construct(e, fids, id, cq, fault) ==
    IF e.status_ # INITIALIZING
    THEN [e |-> e, fids |-> fids, ret |-> ERR_ENDPOINT]
    ELSE LET e1 == [e EXCEPT !.tx_cq_ = cq, !.rx_cq_ = cq]
         IN  IF fault = "fi_endpoint"
             THEN [e |-> e1, fids |-> fids, ret |-> ERR_ENDPOINT]
             ELSE IF fault \in {"bind_av", "bind_tx", "bind_rx", "fi_enable"}
             THEN [e |-> [e1 EXCEPT !.ep_ = NULL], fids |-> fids \ {Fid("ep", id)},
                   ret |-> ERR_ENDPOINT]
             ELSE IF fault = "fi_getname"
             THEN [e |-> [e1 EXCEPT !.ep_ = NULL,
                                    !.local_addr_ = IF Len(e.local_addr_) >= AddrBufLen
                                                    THEN SubSeq(e.local_addr_, 1, AddrBufLen)
                                                    ELSE e.local_addr_ \o Zeros(AddrBufLen - Len(e.local_addr_))],
                   fids |-> fids \ {Fid("ep", id)}, ret |-> ERR_ENDPOINT]
             ELSE [e |-> [e1 EXCEPT !.ep_ = Fid("ep", id), !.local_addr_ = LocalName,
                                    !.status_ = UNCONNECTED],
                   fids |-> fids \cup {Fid("ep", id)}, ret |-> RET_OK]

disconnectUnlocked(e) ==
    [e EXCEPT !.peer_fi_addr_ = FI_ADDR_UNSPEC, !.status_ = UNCONNECTED]

setPeerNicPath(e, peer_nic_path) ==
    [(IF connected(e) THEN disconnectUnlocked(e) ELSE e) EXCEPT !.peer_nic_path_ = peer_nic_path]

getLocalAddr(e) == HexEncode(e.local_addr_)

\* answers of fi_av_insert: the address is inserted, or the call fails and leaves
\* fi_addr alone, or fails and sets fi_addr to FI_ADDR_NOTAVAIL
AvInsertAnswers == {"inserted", "failed", "failed_notavail"}

\* an insertion that never stores the handle fi_av_insert returns
insertPeerAddr_NoHandle(e, av, peer_addr, ins) ==
    IF ins = "inserted" /\ Len(av) < MaxAvEntries
    THEN [e |-> e, av |-> Append(av, HexDecode(peer_addr)), ret |-> RET_OK]
    ELSE [e |-> e, av |-> av, ret |-> ERR_ENDPOINT]

insertPeerAddr(e, av, peer_addr, ins) ==
    LET addr_bin == HexDecode(peer_addr)
    IN  IF ins = "inserted" /\ Len(av) < MaxAvEntries
        THEN [e |-> [e EXCEPT !.peer_fi_addr_ = Len(av)], av |-> Append(av, addr_bin),
              ret |-> RET_OK]
        ELSE [e |-> IF ins = "failed_notavail"
                    THEN [e EXCEPT !.peer_fi_addr_ = FI_ADDR_UNSPEC] ELSE e,
              av |-> av, ret |-> ERR_ENDPOINT]

HandShakeDesc(local, peer, msg) ==
    [local_nic_path |-> local, peer_nic_path |-> peer, reply_msg |-> msg]
EmptyDesc == HandShakeDesc(<< >>, << >>, << >>)

\* answers of EfaTransport::sendHandshake: an error code, or 0 with the peer's descriptor
HandshakeAnswers ==
    {[rc |-> ERR_SOCKET, reply_msg |-> << >>]}
    \cup {[rc |-> RET_OK, reply_msg |-> m] : m \in PeerReplies}

\* a loopback test that never recognises the own path
isLoopback_Never(e) == FALSE

\* the loopback test of setupConnectionsByActive
isLoopback(e) == nicPath = e.peer_nic_path_

\* a request descriptor with the two paths exchanged
ActiveLocalDesc_Swapped(e) == HandShakeDesc(e.peer_nic_path_, nicPath, getLocalAddr(e))

\* the request descriptor setupConnectionsByActive sends
ActiveLocalDesc(e) == HandShakeDesc(nicPath, e.peer_nic_path_, getLocalAddr(e))

\* setupConnectionsByActive past its connected() test
ActiveUnconnected(e, av, hs, ins) ==
    IF isLoopback(e)
    THEN LET r == insertPeerAddr(e, av, getLocalAddr(e), ins)
         IN  [e |-> IF r.ret # RET_OK THEN r.e ELSE [r.e EXCEPT !.status_ = CONNECTED],
              av |-> r.av, ret |-> r.ret, sent |-> << >>, inserts |-> <<getLocalAddr(e)>>]
    ELSE LET local_desc == ActiveLocalDesc(e)
             peer_server_name == getServerNameFromNicPath(e.peer_nic_path_)
             peer_nic_name == getNicNameFromNicPath(e.peer_nic_path_)
             msg == [to |-> peer_server_name, desc |-> local_desc]
         IN  IF peer_server_name = << >> \/ peer_nic_name = << >>
             THEN [e |-> e, av |-> av, ret |-> ERR_INVALID_ARGUMENT, sent |-> << >>,
                   inserts |-> << >>]
             ELSE IF hs.rc # RET_OK
             THEN [e |-> e, av |-> av, ret |-> hs.rc, sent |-> <<msg>>, inserts |-> << >>]
             ELSE IF hs.reply_msg = << >>
             THEN [e |-> e, av |-> av, ret |-> ERR_REJECT_HANDSHAKE, sent |-> <<msg>>,
                   inserts |-> << >>]
             ELSE LET r == insertPeerAddr(e, av, hs.reply_msg, ins)
                  IN  [e |-> IF r.ret # RET_OK THEN r.e
                             ELSE [r.e EXCEPT !.status_ = CONNECTED],
                       av |-> r.av, ret |-> r.ret, sent |-> <<msg>>,
                       inserts |-> <<hs.reply_msg>>]

\* setupConnectionsByActive without its connected() test
setupConnectionsByActive_NoCheck(e, av, hs, ins) == ActiveUnconnected(e, av, hs, ins)

setupConnectionsByActive(e, av, hs, ins) ==
    IF connected(e)
    THEN [e |-> e, av |-> av, ret |-> RET_OK, sent |-> << >>, inserts |-> << >>]
    ELSE ActiveUnconnected(e, av, hs, ins)

\* the reply descriptor setupConnectionsByPassive fills on success
PassiveLocalDesc(e) == HandShakeDesc(nicPath, e.peer_nic_path_, getLocalAddr(e))

setupConnectionsByPassive(e, av, peer_desc, local_desc, ins) ==
    LET e0 == IF connected(e) THEN disconnectUnlocked(e) ELSE e
    IN  IF peer_desc.peer_nic_path # nicPath \/ peer_desc.local_nic_path # e0.peer_nic_path_
        THEN [e |-> e0, av |-> av, ret |-> ERR_REJECT_HANDSHAKE,
              local_desc |-> [local_desc EXCEPT !.reply_msg = << >>], inserts |-> << >>]
        ELSE IF peer_desc.reply_msg = << >>
        THEN [e |-> e0, av |-> av, ret |-> ERR_REJECT_HANDSHAKE,
              local_desc |-> [local_desc EXCEPT !.reply_msg = << >>], inserts |-> << >>]
        ELSE LET r == insertPeerAddr(e0, av, peer_desc.reply_msg, ins)
             IN  IF r.ret # RET_OK
                 THEN [e |-> r.e, av |-> r.av, ret |-> r.ret,
                       local_desc |-> [local_desc EXCEPT !.reply_msg = << >>],
                       inserts |-> <<peer_desc.reply_msg>>]
                 ELSE [e |-> [r.e EXCEPT !.status_ = CONNECTED], av |-> r.av, ret |-> RET_OK,
                       local_desc |-> PassiveLocalDesc(r.e),
                       inserts |-> <<peer_desc.reply_msg>>]

----------------------------------------------------------------------------
\* EfaEndPoint::submitPostSend.

RemoveAt(seq, i) == SubSeq(seq, 1, i - 1) \o SubSeq(seq, i + 1, Len(seq))

\* a connectivity failure branch that fails the slices but keeps them queued
FailAll_KeepsInput(slice_list, failed_slice_list) ==
    [slice_list |-> slice_list, failed_slice_list |-> failed_slice_list \o slice_list]

\* the connectivity failure branch: every slice goes to the failed list
FailAll(slice_list, failed_slice_list) ==
    [slice_list |-> << >>, failed_slice_list |-> failed_slice_list \o slice_list]

\* a loop body that treats a full queue like any other error
PostOne_EagainFails(st, ret) ==
    LET slice == st.slice_list[st.it]
    IN  IF ret = FI_SUCCESS
        THEN [st EXCEPT !.wr_depth_ = @ + 1, !.marked = @ \cup {slice},
                        !.slice_list = RemoveAt(@, st.it)]
        ELSE [st EXCEPT !.failed_slice_list = Append(@, slice),
                        !.slice_list = RemoveAt(@, st.it)]

\* a loop body that leaves the loop at the first hard error
PostOne_ErrorBreaks(st, ret) ==
    LET slice == st.slice_list[st.it]
    IN  IF ret = FI_SUCCESS
        THEN [st EXCEPT !.wr_depth_ = @ + 1, !.marked = @ \cup {slice},
                        !.slice_list = RemoveAt(@, st.it)]
        ELSE IF ret = FI_EAGAIN
        THEN [st EXCEPT !.it = @ + 1]
        ELSE [st EXCEPT !.failed_slice_list = Append(@, slice),
                        !.slice_list = RemoveAt(@, st.it),
                        !.it = Len(st.slice_list)]

\* the loop body after fi_write returned ret for the slice at the iterator
PostOne(st, ret) ==
    LET slice == st.slice_list[st.it]
    IN  IF ret = FI_SUCCESS
        THEN [st EXCEPT !.wr_depth_ = @ + 1, !.marked = @ \cup {slice},
                        !.slice_list = RemoveAt(@, st.it)]
        ELSE IF ret = FI_EAGAIN
        THEN [st EXCEPT !.it = @ + 1]
        ELSE [st EXCEPT !.failed_slice_list = Append(@, slice),
                        !.slice_list = RemoveAt(@, st.it)]

\* the submission loop; resp holds the provider's answers to the posts still to come
RECURSIVE PostLoop(_, _, _)
PostLoop(st, e, resp) ==
    IF st.it > Len(st.slice_list) \/ st.fault
    THEN st
    ELSE IF e.ep_ = NULL
    THEN [st EXCEPT !.fault = TRUE]
    ELSE PostLoop(PostOne([st EXCEPT !.posts = Append(@, [slice |-> st.slice_list[st.it],
                                                          fi_addr |-> e.peer_fi_addr_,
                                                          status |-> e.status_])],
                          Head(resp)),
                  e, Tail(resp))

submitPostSend(e, av, slice_list, failed_slice_list, resp, hs, ins) ==
    LET c  == IF connected(e)
              THEN [e |-> e, av |-> av, ret |-> RET_OK, sent |-> << >>, inserts |-> << >>]
              ELSE setupConnectionsByActive(e, av, hs, ins)
        st0 == [slice_list |-> slice_list, failed_slice_list |-> failed_slice_list, it |-> 1,
                wr_depth_ |-> c.e.wr_depth_, marked |-> {}, posts |-> << >>, fault |-> FALSE]
    IN  IF c.ret # RET_OK
        THEN [e |-> c.e, av |-> c.av, ret |-> c.ret, sent |-> c.sent, inserts |-> c.inserts,
              slice_list |-> FailAll(slice_list, failed_slice_list).slice_list,
              failed_slice_list |-> FailAll(slice_list, failed_slice_list).failed_slice_list,
              marked |-> {}, posts |-> << >>, fault |-> FALSE]
        ELSE LET st == PostLoop(st0, c.e, resp)
             IN  [e |-> [c.e EXCEPT !.wr_depth_ = st.wr_depth_], av |-> c.av, ret |-> RET_OK,
                  sent |-> c.sent, inserts |-> c.inserts,
                  slice_list |-> st.slice_list, failed_slice_list |-> st.failed_slice_list,
                  marked |-> st.marked, posts |-> st.posts, fault |-> st.fault]

----------------------------------------------------------------------------
\* The record of the last completed call.

\* the handshake transport, or fi_av_insert, was not called
NoAnswer == [rc |-> "unused", reply_msg |-> << >>]
NoInsert == "unused"

\* the environment's answers a call of setupConnectionsByActive on e consumes
ActiveAnswers(e) ==
    LET wellFormed == getServerNameFromNicPath(e.peer_nic_path_) # << >>
                      /\ getNicNameFromNicPath(e.peer_nic_path_) # << >>
    IN  IF connected(e) THEN {<<NoAnswer, NoInsert>>}
        ELSE IF isLoopback(e) THEN {<<NoAnswer, ins>> : ins \in AvInsertAnswers}
        ELSE IF ~wellFormed THEN {<<NoAnswer, NoInsert>>}
        ELSE {<<hs, NoInsert>> : hs \in {h \in HandshakeAnswers :
                                           h.rc # RET_OK \/ h.reply_msg = << >>}}
             \cup {<<hs, ins>> : hs \in {h \in HandshakeAnswers :
                                            h.rc = RET_OK /\ h.reply_msg # << >>},
                                ins \in AvInsertAnswers}

\* the fi_av_insert answers a call of setupConnectionsByPassive on e consumes
PassiveAnswers(e, peer_desc) ==
    IF peer_desc.peer_nic_path # nicPath \/ peer_desc.local_nic_path # e.peer_nic_path_
       \/ peer_desc.reply_msg = << >>
    THEN {NoInsert} ELSE AvInsertAnswers

\* a null shared_ptr<EfaEndPoint>
NoEp == 0

\* repeat says that the call before was the same operation; store_pre, eps_pre,
\* mr_pre and fids_pre are the endpoint store, the endpoint
\* objects, the registry and the open provider handles as the call found them;
\* trace lists what the call did to endpoints and provider handles, in order
NoCall ==
    [op |-> "none", id |-> 0, pre |-> NewEndPoint, av_pre |-> << >>, ret |-> RET_OK,
     store_pre |-> [set |-> FALSE, endpoints_ |-> << >>], eps_pre |-> << >>,
     mr_pre |-> << >>, fids_pre |-> {}, trace |-> << >>, result |-> NoEp,
     repeat |-> FALSE,
     sent |-> << >>, inserts |-> << >>, posts |-> << >>,
     in_slices |-> << >>, in_failed |-> << >>, resp |-> << >>,
     slice_list |-> << >>, failed_slice_list |-> << >>, marked |-> {},
     peer_desc |-> EmptyDesc, local_desc |-> EmptyDesc, hs |-> NoAnswer, arg |-> << >>,
     closes |-> << >>]

----------------------------------------------------------------------------
\* EfaContext handles and the state a successful construct leaves.

HintsFid == Fid("hints", 0)
InfoFid == Fid("info", 0)
FabricFid == Fid("fabric", 0)
DomainFid == Fid("domain", 0)
AvFid == Fid("av", 0)
CqFid(i) == Fid("cq", i)

EmptyMap == [p \in {} |-> 0]
NoStore == [set |-> FALSE, endpoints_ |-> EmptyMap]
NewStore == [set |-> TRUE, endpoints_ |-> EmptyMap]

\* one endpoint object of a constructed context with one completion queue
InitEp ==
    /\ hints_ = HintsFid /\ fi_info_ = InfoFid /\ fabric_ = FabricFid
    /\ domain_ = DomainFid /\ av_ = AvFid /\ cq_list_ = <<CqFid(1)>>
    /\ mr_map_ = EmptyMap
    /\ endpoint_store_ = NewStore
    /\ fi_open = {HintsFid, InfoFid, FabricFid, DomainFid, AvFid, CqFid(1)}
    /\ eps = <<NewEndPoint>>
    /\ av_tab = << >>
    /\ th = << >>
    /\ call = NoCall
    /\ crashed = FALSE

----------------------------------------------------------------------------
\* EfaContext: construct and deconstruct.

\* the object after EfaContext::EfaContext
InitCtx ==
    /\ hints_ = NULL /\ fi_info_ = NULL /\ fabric_ = NULL
    /\ domain_ = NULL /\ av_ = NULL /\ cq_list_ = << >>
    /\ mr_map_ = EmptyMap
    /\ endpoint_store_ = NoStore
    /\ fi_open = {}
    /\ eps = << >>
    /\ av_tab = << >>
    /\ th = << >>
    /\ call = NoCall
    /\ crashed = FALSE

\* steps of EfaContext::construct at which the provider may fail; k is the
\* completion queue whose fi_cq_open fails
CtxFaults(num_cq_list) ==
    {[step |-> st, k |-> 0] :
        st \in {"none", "fi_allocinfo", "fi_getinfo", "fi_fabric", "fi_domain", "fi_av_open"}}
    \cup {[step |-> "fi_cq_open", k |-> k] : k \in 1..num_cq_list}

CtxFields(h, i, f, d, a, cqs, fids, ret) ==
    [hints_ |-> h, fi_info_ |-> i, fabric_ |-> f, domain_ |-> d, av_ |-> a,
     cq_list_ |-> cqs, fids |-> fids, ret |-> ret]

\* the completion-queue loop of EfaContext::construct: the list is resized first,
\* queue i is stored once opened, and a failure at queue k returns at once
cqLoop(num_cq_list, k) ==
    [i \in 1..num_cq_list |-> IF k = 0 \/ i < k THEN CqFid(i) ELSE NULL]

ctxConstruct(num_cq_list, fault, fids) ==
    IF fault.step = "fi_allocinfo"
    THEN CtxFields(NULL, NULL, NULL, NULL, NULL, << >>, fids, ERR_CONTEXT)
    ELSE IF fault.step \in {"fi_getinfo", "fi_fabric", "fi_domain", "fi_av_open"}
    THEN CtxFields(NULL, NULL, NULL, NULL, NULL, << >>, fids, ERR_CONTEXT)
    ELSE LET cqs == cqLoop(num_cq_list, fault.k)
             opened == {HintsFid, InfoFid, FabricFid, DomainFid, AvFid}
                       \cup ({cqs[i] : i \in 1..num_cq_list} \ {NULL})
         IN  CtxFields(HintsFid, InfoFid, FabricFid, DomainFid, AvFid, cqs,
                       fids \cup opened,
                       IF fault.step = "fi_cq_open" THEN ERR_CONTEXT ELSE RET_OK)

\* a disconnectAll that disconnects nothing
disconnectAll_None(store, heap) == heap

\* EfaEndpointStore::disconnectAll: disconnect on every stored endpoint, no entry removed
disconnectAll(store, heap) ==
    [id \in 1..Len(heap) |->
        IF \E p \in DOMAIN store.endpoints_ : store.endpoints_[p] = id
        THEN disconnectUnlocked(heap[id]) ELSE heap[id]]

\* fids EfaContext::deconstruct closes, in order
RECURSIVE SetToSeq(_)
SetToSeq(S) ==
    IF S = {} THEN << >>
    ELSE LET x == CHOOSE y \in S : \A z \in S : y[2] <= z[2]
         IN  <<x>> \o SetToSeq(S \ {x})
\* a teardown that closes the fabric whether or not it is still open
deconstructCloses_Stale ==
    SetToSeq(({mr_map_[a].mr : a \in DOMAIN mr_map_}) \ {NULL})
    \o SelectSeq(cq_list_, LAMBDA c : c # NULL)
    \o SelectSeq(<<av_, domain_>>, LAMBDA h : h # NULL) \o <<FabricFid>>
deconstructCloses ==
    SetToSeq(({mr_map_[a].mr : a \in DOMAIN mr_map_}) \ {NULL})
    \o SelectSeq(cq_list_, LAMBDA c : c # NULL)
    \o SelectSeq(<<av_, domain_, fabric_, fi_info_, hints_>>, LAMBDA h : h # NULL)

\* what EfaContext::deconstruct does, in order: disconnect on each stored
\* endpoint, then the closes
StoredIds(store) == {store.endpoints_[p] : p \in DOMAIN store.endpoints_}
RECURSIVE IdsToSeq(_)
IdsToSeq(S) ==
    IF S = {} THEN << >>
    ELSE LET x == CHOOSE y \in S : \A z \in S : y <= z
         IN  <<x>> \o IdsToSeq(S \ {x})
\* a teardown that closes the provider handles before it disconnects
deconstructTrace_ClosesFirst ==
    deconstructCloses
    \o (IF endpoint_store_.set
        THEN [i \in 1..Cardinality(StoredIds(endpoint_store_)) |->
                <<"disconnect", IdsToSeq(StoredIds(endpoint_store_))[i]>>]
        ELSE << >>)
deconstructTrace ==
    (IF endpoint_store_.set
     THEN [i \in 1..Cardinality(StoredIds(endpoint_store_)) |->
             <<"disconnect", IdsToSeq(StoredIds(endpoint_store_))[i]>>]
     ELSE << >>)
    \o deconstructCloses

CtxConstruct ==
    /\ ~crashed
    /\ ~endpoint_store_.set
    /\ \E num_cq_list \in 0..MaxCq :
       \E fault \in CtxFaults(num_cq_list) :
       \E r \in {ctxConstruct(num_cq_list, fault, fi_open)} :
        /\ endpoint_store_' = NewStore
        /\ hints_' = r.hints_ /\ fi_info_' = r.fi_info_ /\ fabric_' = r.fabric_
        /\ domain_' = r.domain_ /\ av_' = r.av_ /\ cq_list_' = r.cq_list_
        /\ fi_open' = r.fids
        /\ call' = [NoCall EXCEPT !.op = "EfaContext::construct", !.ret = r.ret,
                                  !.arg = <<num_cq_list, fault.step, fault.k>>]
    /\ UNCHANGED <<mr_map_, eps, av_tab, th, crashed>>

CtxDeconstruct ==
    /\ ~crashed
    /\ eps' = IF endpoint_store_.set THEN disconnectAll(endpoint_store_, eps) ELSE eps
    /\ mr_map_' = EmptyMap
    /\ cq_list_' = << >>
    /\ av_' = NULL /\ domain_' = NULL /\ fabric_' = NULL
    /\ fi_info_' = NULL /\ hints_' = NULL
    /\ fi_open' = fi_open \ {deconstructCloses[i] : i \in 1..Len(deconstructCloses)}
    /\ call' = [NoCall EXCEPT !.op = "EfaContext::deconstruct", !.closes = deconstructCloses,
                              !.store_pre = endpoint_store_, !.eps_pre = eps,
                              !.mr_pre = mr_map_, !.fids_pre = fi_open,
                              !.arg = <<fabric_, domain_, av_, cq_list_>>,
                              !.trace = deconstructTrace,
                              !.repeat = (call.op = "EfaContext::deconstruct")]
    /\ UNCHANGED <<endpoint_store_, av_tab, th, crashed>>

----------------------------------------------------------------------------
\* EfaContext: the memory-region registry.

MrAddrs == 1..MaxAddrs
MrFids == {Fid("mr", n) : n \in 1..(MaxMr + 1)}
\* fi_mr_key of a handle
fi_mr_key(mr) == mr[2]

registerMemoryRegionInternal(addr, length, fids, reg_ok) ==
    LET len == IF length > max_mr_size THEN max_mr_size ELSE length
        mr == CHOOSE f \in MrFids : f \notin fids /\ \A g \in MrFids \ fids : f[2] <= g[2]
    IN  IF ~reg_ok
        THEN [ret |-> ERR_CONTEXT, fids |-> fids,
              mrMeta |-> [addr |-> addr, length |-> len, mr |-> NULL, key |-> 0]]
        ELSE [ret |-> RET_OK, fids |-> fids \cup {mr},
              mrMeta |-> [addr |-> addr, length |-> len, mr |-> mr, key |-> fi_mr_key(mr)]]

MapPut(m, k, v) == [x \in DOMAIN m \cup {k} |-> IF x = k THEN v ELSE m[x]]
\* an erase that keeps the entry
MapErase_Keeps(m, k) == m
MapErase(m, k) == [x \in DOMAIN m \ {k} |-> m[x]]

CtxRegisterMemoryRegion ==
    /\ ~crashed
    /\ \E addr \in MrAddrs, length \in {1, max_mr_size + 1}, reg_ok \in BOOLEAN :
        /\ reg_ok => Cardinality(fi_open \cap MrFids) < MaxMr
        /\ IF domain_ = NULL
           THEN /\ crashed' = TRUE
                /\ call' = [NoCall EXCEPT !.op = "registerMemoryRegion", !.arg = <<addr, length>>]
                /\ UNCHANGED <<mr_map_, fi_open>>
           ELSE \E r \in {registerMemoryRegionInternal(addr, length, fi_open, reg_ok)} :
                /\ fi_open' = r.fids
                /\ mr_map_' = IF r.ret # RET_OK THEN mr_map_ ELSE MapPut(mr_map_, addr, r.mrMeta)
                /\ call' = [NoCall EXCEPT !.op = "registerMemoryRegion", !.ret = r.ret,
                                          !.arg = <<addr, length>>]
                /\ UNCHANGED crashed
    /\ UNCHANGED <<hints_, fi_info_, fabric_, domain_, av_, cq_list_, endpoint_store_,
                   eps, av_tab, th>>

CtxUnregisterMemoryRegion ==
    /\ ~crashed
    /\ \E addr \in MrAddrs, close_ok \in BOOLEAN :
        /\ (addr \notin DOMAIN mr_map_) => close_ok
        /\ IF addr \in DOMAIN mr_map_ /\ mr_map_[addr].mr # NULL /\ ~close_ok
           THEN /\ call' = [NoCall EXCEPT !.op = "unregisterMemoryRegion", !.ret = ERR_CONTEXT,
                                          !.arg = <<addr>>, !.mr_pre = mr_map_,
                                          !.fids_pre = fi_open,
                                          !.repeat = (call.op = "unregisterMemoryRegion")]
                /\ UNCHANGED <<mr_map_, fi_open>>
           ELSE /\ mr_map_' = MapErase(mr_map_, addr)
                /\ fi_open' = IF addr \in DOMAIN mr_map_ THEN fi_open \ {mr_map_[addr].mr}
                              ELSE fi_open
                /\ call' = [NoCall EXCEPT !.op = "unregisterMemoryRegion",
                                          !.arg = <<addr>>, !.mr_pre = mr_map_,
                                          !.fids_pre = fi_open,
                                          !.repeat = (call.op = "unregisterMemoryRegion"),
                                          !.closes = IF addr \in DOMAIN mr_map_
                                                     THEN <<mr_map_[addr].mr>> ELSE << >>]
    /\ UNCHANGED <<hints_, fi_info_, fabric_, domain_, av_, cq_list_, endpoint_store_,
                   eps, av_tab, th, crashed>>

\* EfaContext::rkey
rkey(map, addr) ==
    IF addr \in DOMAIN map /\ map[addr].mr # NULL THEN map[addr].key ELSE 0

\* EfaContext::lkey
lkey(map, addr) ==
    IF addr \in DOMAIN map /\ map[addr].mr # NULL THEN fi_mr_key(map[addr].mr) ELSE 0

\* a caller reads both keys of an address
CtxKeys ==
    /\ ~crashed
    /\ \E addr \in MrAddrs :
        call' = [NoCall EXCEPT !.op = "rkey/lkey",
                               !.arg = <<addr, rkey(mr_map_, addr), lkey(mr_map_, addr)>>,
                               !.mr_pre = mr_map_]
    /\ UNCHANGED <<ctxvars, eps, av_tab, fi_open, th, crashed>>

NextCtx ==
    \/ CtxConstruct
    \/ CtxDeconstruct
    \/ CtxRegisterMemoryRegion
    \/ CtxUnregisterMemoryRegion
    \/ CtxKeys

SpecCtx == InitCtx /\ [][NextCtx]_vars

----------------------------------------------------------------------------
\* Calls on one endpoint, each run to completion.

EpConstruct(id) ==
    /\ ~crashed
    /\ \E fault \in (IF eps[id].status_ = INITIALIZING THEN ConstructFaults ELSE {"none"}) :
        \E r \in {construct(eps[id], fi_open, id, cq_list_[1], fault)} :
            /\ eps' = [eps EXCEPT ![id] = r.e]
            /\ fi_open' = r.fids
            /\ call' = [NoCall EXCEPT !.op = "construct", !.id = id, !.pre = eps[id],
                                      !.av_pre = av_tab, !.ret = r.ret]
    /\ UNCHANGED <<ctxvars, av_tab, th, crashed>>

EpSetPeerNicPath(id) ==
    /\ ~crashed
    /\ \E p \in PeerPaths :
        /\ eps' = [eps EXCEPT ![id] = setPeerNicPath(eps[id], p)]
        /\ call' = [NoCall EXCEPT !.op = "setPeerNicPath", !.id = id, !.pre = eps[id],
                                  !.av_pre = av_tab, !.arg = p]
    /\ UNCHANGED <<ctxvars, av_tab, fi_open, th, crashed>>

EpSetupConnectionsByActive(id) ==
    /\ ~crashed
    /\ \E a \in ActiveAnswers(eps[id]) :
        \E r \in {setupConnectionsByActive(eps[id], av_tab, a[1], a[2])} :
            /\ eps' = [eps EXCEPT ![id] = r.e]
            /\ av_tab' = r.av
            /\ call' = [NoCall EXCEPT !.op = "setupConnectionsByActive", !.id = id,
                                      !.pre = eps[id], !.av_pre = av_tab, !.ret = r.ret,
                                      !.sent = r.sent, !.inserts = r.inserts,
                                      !.hs = a[1]]
    /\ UNCHANGED <<ctxvars, fi_open, th, crashed>>

PassiveRequests ==
    {HandShakeDesc(l, p, m) : l \in {nicPath, PathB}, p \in {nicPath, PathB}, m \in PeerReplies}

EpSetupConnectionsByPassive(id) ==
    /\ ~crashed
    /\ \E peer_desc \in PassiveRequests :
      \E ins \in PassiveAnswers(eps[id], peer_desc) :
        \E r \in {setupConnectionsByPassive(eps[id], av_tab, peer_desc, EmptyDesc, ins)} :
            /\ eps' = [eps EXCEPT ![id] = r.e]
            /\ av_tab' = r.av
            /\ call' = [NoCall EXCEPT !.op = "setupConnectionsByPassive", !.id = id,
                                      !.pre = eps[id], !.av_pre = av_tab, !.ret = r.ret,
                                      !.inserts = r.inserts, !.peer_desc = peer_desc,
                                      !.local_desc = r.local_desc]
    /\ UNCHANGED <<ctxvars, fi_open, th, crashed>>

\* EfaEndPoint::disconnect
EpDisconnect(id) ==
    /\ ~crashed
    /\ eps' = [eps EXCEPT ![id] = disconnectUnlocked(eps[id])]
    /\ call' = [NoCall EXCEPT !.op = "disconnect", !.id = id, !.pre = eps[id],
                              !.av_pre = av_tab]
    /\ UNCHANGED <<ctxvars, av_tab, fi_open, th, crashed>>

\* slice lists of a caller: slices 1..n in submission order
SliceLists == {[i \in 1..n |-> i] : n \in 0..MaxSlices}
\* a slice that failed in an earlier call and is still in the caller's failed list
EarlierFailed == 0
FiWriteAnswers == {FI_SUCCESS, FI_EAGAIN, FI_EIO}

\* the fi_write answers a call of submitPostSend consumes: none when the
\* connection cannot be established
PostAnswers(e, hs, ins, slice_list) ==
    IF ~connected(e) /\ setupConnectionsByActive(e, av_tab, hs, ins).ret # RET_OK
    THEN {<< >>}
    ELSE [1..Len(slice_list) -> FiWriteAnswers]

EpSubmitPostSend(id) ==
    /\ ~crashed
    /\ \E slice_list \in SliceLists, failed_slice_list \in {<< >>, <<EarlierFailed>>},
          a \in ActiveAnswers(eps[id]) :
        /\ eps[id].wr_depth_ + Len(slice_list) <= MaxWrDepth
        /\ \E resp \in PostAnswers(eps[id], a[1], a[2], slice_list) :
            \E r \in {submitPostSend(eps[id], av_tab, slice_list, failed_slice_list, resp,
                                      a[1], a[2])} :
                /\ eps' = [eps EXCEPT ![id] = r.e]
                /\ av_tab' = r.av
                /\ crashed' = r.fault
                /\ call' = [NoCall EXCEPT !.op = "submitPostSend", !.id = id,
                                          !.pre = eps[id], !.av_pre = av_tab, !.ret = r.ret,
                                          !.sent = r.sent, !.inserts = r.inserts,
                                          !.posts = r.posts, !.in_slices = slice_list,
                                          !.in_failed = failed_slice_list, !.resp = resp,
                                          !.slice_list = r.slice_list,
                                          !.failed_slice_list = r.failed_slice_list,
                                          !.marked = r.marked,
                                          !.hs = a[1]]
    /\ UNCHANGED <<ctxvars, fi_open, th>>

\* the connection state machine of one endpoint
NextEp ==
    \/ EpConstruct(1)
    \/ EpSetPeerNicPath(1)
    \/ EpSetupConnectionsByActive(1)
    \/ EpSetupConnectionsByPassive(1)
    \/ EpDisconnect(1)

SpecEp == InitEp /\ [][NextEp]_vars

\* the data path of one endpoint. The endpoint starts as EfaContext::endpoint
\* hands it out: constructed on the first completion queue when the context has
\* one, its peer path set; connections are established by submitPostSend.
InitSend ==
    /\ \E num_cq_list \in 0..1 :
       \E r \in {ctxConstruct(num_cq_list, [step |-> "none", k |-> 0], {})} :
       \E p \in PeerPaths :
       \E c \in {IF r.cq_list_ # << >>
                  THEN construct(NewEndPoint, r.fids, 1, r.cq_list_[1], "none")
                  ELSE [e |-> NewEndPoint, fids |-> r.fids, ret |-> RET_OK]} :
        /\ hints_ = r.hints_ /\ fi_info_ = r.fi_info_ /\ fabric_ = r.fabric_
        /\ domain_ = r.domain_ /\ av_ = r.av_ /\ cq_list_ = r.cq_list_
        /\ fi_open = c.fids
        /\ eps = <<setPeerNicPath(c.e, p)>>
    /\ mr_map_ = EmptyMap
    /\ endpoint_store_ = NewStore
    /\ av_tab = << >>
    /\ th = << >>
    /\ call = NoCall
    /\ crashed = FALSE

NextSend ==
    \/ EpSetPeerNicPath(1)
    \/ EpDisconnect(1)
    \/ EpSubmitPostSend(1)

SpecSend == InitSend /\ [][NextSend]_vars

----------------------------------------------------------------------------
\* EfaEndpointStore and EfaContext::endpoint, called from concurrent threads.
\* A step is what runs under one acquisition of the store's lock, or touches
\* only the calling thread's own objects.

Threads == 1..MaxThreads
StorePaths == {nicPath, PathB}
\* EfaEndpointStore::get
get(store, peer_nic_path) ==
    IF peer_nic_path \in DOMAIN store.endpoints_ THEN store.endpoints_[peer_nic_path] ELSE NoEp

\* a store whose add drops every other entry
add_Clears(store, peer_nic_path, endpoint) ==
    [store EXCEPT !.endpoints_ = MapPut(EmptyMap, peer_nic_path, endpoint)]

\* EfaEndpointStore::add
add(store, peer_nic_path, endpoint) ==
    [store EXCEPT !.endpoints_ = MapPut(@, peer_nic_path, endpoint)]

\* EfaEndpointStore::remove
remove(store, peer_nic_path) ==
    [store EXCEPT !.endpoints_ = MapErase(@, peer_nic_path)]

IdleThread ==
    [pc |-> "idle", peer_nic_path |-> << >>, new_endpoint |-> NoEp, result |-> NoEp,
     removed |-> FALSE]

\* a context after a successful construct with no or one completion queue, an
\* empty store, no caller
InitStore ==
    /\ \E num_cq_list \in 0..1 :
       \E r \in {ctxConstruct(num_cq_list, [step |-> "none", k |-> 0], {})} :
        /\ hints_ = r.hints_ /\ fi_info_ = r.fi_info_ /\ fabric_ = r.fabric_
        /\ domain_ = r.domain_ /\ av_ = r.av_ /\ cq_list_ = r.cq_list_
        /\ fi_open = r.fids
    /\ mr_map_ = EmptyMap
    /\ endpoint_store_ = NewStore
    /\ eps = << >>
    /\ av_tab = << >>
    /\ th = [t \in Threads |-> IdleThread]
    /\ call = NoCall
    /\ crashed = FALSE

\* EfaContext::endpoint up to the return of endpoint_store_->get
EndpointGet(t) ==
    /\ ~crashed
    /\ th[t].pc = "idle"
    /\ \E p \in StorePaths :
        th' = [th EXCEPT ![t] =
                 IF ~endpoint_store_.set
                 THEN [IdleThread EXCEPT !.pc = "done", !.peer_nic_path = p]
                 ELSE IF get(endpoint_store_, p) # NoEp
                 THEN [IdleThread EXCEPT !.pc = "done", !.peer_nic_path = p,
                                         !.result = get(endpoint_store_, p)]
                 ELSE [IdleThread EXCEPT !.pc = "create", !.peer_nic_path = p]]
    /\ UNCHANGED <<ctxvars, eps, av_tab, fi_open, call, crashed>>

\* EfaContext::endpoint from make_shared to setPeerNicPath: the new object is
\* known to this thread alone
EndpointCreate(t) ==
    /\ ~crashed
    /\ th[t].pc = "create"
    /\ Len(eps) < MaxEps
    /\ LET id == Len(eps) + 1
       IN  IF cq_list_ # << >> /\ cq_list_[1] # NULL
           THEN \E fault \in ConstructFaults :
                \E r \in {construct(NewEndPoint, fi_open, id, cq_list_[1], fault)} :
                    /\ fi_open' = r.fids
                    /\ IF r.ret # RET_OK
                       THEN /\ eps' = Append(eps, r.e)
                            /\ th' = [th EXCEPT ![t].pc = "done"]
                       ELSE /\ eps' = Append(eps, setPeerNicPath(r.e, th[t].peer_nic_path))
                            /\ th' = [th EXCEPT ![t].pc = "add", ![t].new_endpoint = id]
           ELSE /\ eps' = Append(eps, setPeerNicPath(NewEndPoint, th[t].peer_nic_path))
                /\ th' = [th EXCEPT ![t].pc = "add", ![t].new_endpoint = id]
                /\ UNCHANGED fi_open
    /\ UNCHANGED <<ctxvars, av_tab, call, crashed>>

\* EfaContext::endpoint: endpoint_store_->add and the return of the new endpoint
EndpointAdd(t) ==
    /\ ~crashed
    /\ th[t].pc = "add"
    /\ endpoint_store_' = add(endpoint_store_, th[t].peer_nic_path, th[t].new_endpoint)
    /\ th' = [th EXCEPT ![t].pc = "done", ![t].result = th[t].new_endpoint]
    /\ UNCHANGED <<hints_, fi_info_, fabric_, domain_, av_, cq_list_, mr_map_,
                   eps, av_tab, fi_open, call, crashed>>

\* the caller is done with what endpoint() returned
EndpointRelease(t) ==
    /\ ~crashed
    /\ th[t].pc = "done"
    /\ th' = [th EXCEPT ![t] = IdleThread]
    /\ UNCHANGED <<ctxvars, eps, av_tab, fi_open, call, crashed>>

\* EfaContext::deleteEndpoint; the threads inside or back from endpoint() for
\* the same path note that a remove intervened
DeleteEndpoint ==
    /\ ~crashed
    /\ \E p \in StorePaths :
        /\ p \in DOMAIN endpoint_store_.endpoints_
        /\ endpoint_store_' = remove(endpoint_store_, p)
        /\ th' = [t \in Threads |->
                    IF th[t].pc # "idle" /\ th[t].peer_nic_path = p
                    THEN [th[t] EXCEPT !.removed = TRUE] ELSE th[t]]
    /\ UNCHANGED <<hints_, fi_info_, fabric_, domain_, av_, cq_list_, mr_map_,
                   eps, av_tab, fi_open, call, crashed>>

NextStore ==
    \/ \E t \in Threads : EndpointGet(t)
    \/ \E t \in Threads : EndpointCreate(t)
    \/ \E t \in Threads : EndpointAdd(t)
    \/ \E t \in Threads : EndpointRelease(t)
    \/ DeleteEndpoint

SpecStore == InitStore /\ [][NextStore]_vars

----------------------------------------------------------------------------
\* The context, its endpoint store and its endpoints over the context's life,
\* each call run to completion by one caller at a time.

\* EfaEndpointStore::size
size(store) == Cardinality(DOMAIN store.endpoints_)

\* EfaContext::endpoint: the stored endpoint on a hit; on a miss a new object,
\* constructed when the first completion queue exists, dropped when construct
\* fails, else given its peer path, added and returned
endpoint(store, heap, cqs, fids, peer_nic_path, fault) ==
    LET id == Len(heap) + 1
    IN  IF ~store.set
        THEN [store |-> store, heap |-> heap, fids |-> fids, result |-> NoEp]
        ELSE IF get(store, peer_nic_path) # NoEp
        THEN [store |-> store, heap |-> heap, fids |-> fids,
              result |-> get(store, peer_nic_path)]
        ELSE LET c == IF cqs # << >> /\ cqs[1] # NULL
                      THEN construct(NewEndPoint, fids, id, cqs[1], fault)
                      ELSE [e |-> NewEndPoint, fids |-> fids, ret |-> RET_OK]
             IN  IF c.ret # RET_OK
                 THEN [store |-> store, heap |-> heap, fids |-> c.fids, result |-> NoEp]
                 ELSE [store |-> add(store, peer_nic_path, id),
                       heap |-> Append(heap, setPeerNicPath(c.e, peer_nic_path)),
                       fids |-> c.fids, result |-> id]

\* EfaContext::deleteEndpoint
deleteEndpoint(store, peer_nic_path) ==
    IF store.set THEN remove(store, peer_nic_path) ELSE store

\* the construct faults a call of endpoint(p) can meet
EndpointFaults(p) ==
    IF endpoint_store_.set /\ get(endpoint_store_, p) = NoEp
       /\ cq_list_ # << >> /\ cq_list_[1] # NULL
    THEN {"none", "fi_endpoint", "fi_enable"} ELSE {"none"}

CtxEndpoint ==
    /\ ~crashed
    /\ \E p \in StorePaths :
       \E fault \in EndpointFaults(p) :
        /\ (get(endpoint_store_, p) = NoEp) => Len(eps) < MaxLifeEps
        /\ \E r \in {endpoint(endpoint_store_, eps, cq_list_, fi_open, p, fault)} :
            /\ endpoint_store_' = r.store
            /\ eps' = r.heap
            /\ fi_open' = r.fids
            /\ call' = [NoCall EXCEPT !.op = "endpoint", !.arg = p, !.result = r.result,
                                      !.store_pre = endpoint_store_, !.eps_pre = eps,
                                      !.fids_pre = fi_open, !.trace = <<fault>>]
    /\ UNCHANGED <<hints_, fi_info_, fabric_, domain_, av_, cq_list_, mr_map_,
                   av_tab, th, crashed>>

CtxDeleteEndpoint ==
    /\ ~crashed
    /\ \E p \in StorePaths :
        /\ endpoint_store_' = deleteEndpoint(endpoint_store_, p)
        /\ call' = [NoCall EXCEPT !.op = "deleteEndpoint", !.arg = p,
                                  !.store_pre = endpoint_store_, !.eps_pre = eps]
    /\ UNCHANGED <<hints_, fi_info_, fabric_, domain_, av_, cq_list_, mr_map_,
                   eps, av_tab, fi_open, th, crashed>>

\* EfaEndpointStore::disconnectAll, called on the context's store
StoreDisconnectAll ==
    /\ ~crashed
    /\ endpoint_store_.set
    /\ eps' = disconnectAll(endpoint_store_, eps)
    /\ call' = [NoCall EXCEPT !.op = "disconnectAll",
                              !.store_pre = endpoint_store_, !.eps_pre = eps]
    /\ UNCHANGED <<ctxvars, av_tab, fi_open, th, crashed>>

\* a caller establishes the connection of an endpoint it holds, while the
\* context's address vector is open; the peer, when one is asked, rejects or
\* answers with an address like this host's
LifeAnswers(e) ==
    {a \in ActiveAnswers(e) :
        /\ a[1].rc \in {NoAnswer.rc, RET_OK}
        /\ a[1].reply_msg \in {<< >>, getLocalAddr([local_addr_ |-> LocalName])}
        /\ a[2] \in {NoInsert, "inserted", "failed"}}

LifeConnect ==
    /\ ~crashed
    /\ av_ # NULL
    /\ \E id \in 1..Len(eps) :
       \E a \in LifeAnswers(eps[id]) :
       \E r \in {setupConnectionsByActive(eps[id], av_tab, a[1], a[2])} :
        /\ eps' = [eps EXCEPT ![id] = r.e]
        /\ av_tab' = r.av
        /\ call' = [NoCall EXCEPT !.op = "setupConnectionsByActive", !.id = id,
                                  !.pre = eps[id], !.av_pre = av_tab, !.ret = r.ret,
                                  !.sent = r.sent, !.inserts = r.inserts, !.hs = a[1]]
    /\ UNCHANGED <<ctxvars, fi_open, th, crashed>>

\* a context after a successful construct with no or one completion queue, an
\* empty store, and no or one registered memory region
InitLife ==
    /\ \E num_cq_list \in 0..1 :
       \E c \in {ctxConstruct(num_cq_list, [step |-> "none", k |-> 0], {})} :
       \E n \in 0..1 :
       \E r \in {registerMemoryRegionInternal(1, 1, c.fids, n = 1)} :
        /\ hints_ = c.hints_ /\ fi_info_ = c.fi_info_ /\ fabric_ = c.fabric_
        /\ domain_ = c.domain_ /\ av_ = c.av_ /\ cq_list_ = c.cq_list_
        /\ fi_open = r.fids
        /\ mr_map_ = IF n = 1 THEN MapPut(EmptyMap, 1, r.mrMeta) ELSE EmptyMap
    /\ endpoint_store_ = NewStore
    /\ eps = << >>
    /\ av_tab = << >>
    /\ th = << >>
    /\ call = NoCall
    /\ crashed = FALSE

NextLife ==
    \/ CtxEndpoint
    \/ CtxDeleteEndpoint
    \/ LifeConnect
    \/ StoreDisconnectAll
    \/ CtxDeconstruct

SpecLife == InitLife /\ [][NextLife]_vars

----------------------------------------------------------------------------
\* submitPostSend on one thread while another thread calls disconnect on the
\* same endpoint. submitPostSend takes no lock: its connectivity test and
\* connection setup are one step, each fi_write with the bookkeeping that
\* follows it is one step, and disconnect may run between any two of them.

IdleSubmit ==
    [pc |-> "idle",
     st |-> [slice_list |-> << >>, failed_slice_list |-> << >>, it |-> 1, wr_depth_ |-> 0,
             marked |-> {}, posts |-> << >>, fault |-> FALSE]]

InitRace ==
    /\ \E num_cq_list \in 0..1 :
       \E r \in {ctxConstruct(num_cq_list, [step |-> "none", k |-> 0], {})} :
       \E p \in PeerPaths :
       \E c \in {IF r.cq_list_ # << >>
                  THEN construct(NewEndPoint, r.fids, 1, r.cq_list_[1], "none")
                  ELSE [e |-> NewEndPoint, fids |-> r.fids, ret |-> RET_OK]} :
        /\ hints_ = r.hints_ /\ fi_info_ = r.fi_info_ /\ fabric_ = r.fabric_
        /\ domain_ = r.domain_ /\ av_ = r.av_ /\ cq_list_ = r.cq_list_
        /\ fi_open = c.fids
        /\ eps = <<setPeerNicPath(c.e, p)>>
    /\ mr_map_ = EmptyMap
    /\ endpoint_store_ = NewStore
    /\ av_tab = << >>
    /\ th = IdleSubmit
    /\ call = NoCall
    /\ crashed = FALSE

\* submitPostSend up to the start of its loop
SubmitBegin ==
    /\ ~crashed
    /\ th.pc = "idle"
    /\ \E slice_list \in SliceLists, a \in ActiveAnswers(eps[1]) :
        /\ eps[1].wr_depth_ + Len(slice_list) <= MaxWrDepth
        /\ \E c \in {setupConnectionsByActive(eps[1], av_tab, a[1], a[2])} :
            /\ eps' = [eps EXCEPT ![1] = c.e]
            /\ av_tab' = c.av
            /\ IF c.ret # RET_OK
               THEN /\ th' = IdleSubmit
                    /\ call' = [NoCall EXCEPT !.op = "submitPostSend", !.id = 1,
                                   !.pre = eps[1], !.av_pre = av_tab, !.ret = c.ret,
                                   !.in_slices = slice_list,
                                   !.slice_list = FailAll(slice_list, << >>).slice_list,
                                   !.failed_slice_list =
                                       FailAll(slice_list, << >>).failed_slice_list]
               ELSE /\ th' = [IdleSubmit EXCEPT !.pc = "loop", !.st.slice_list = slice_list]
                    /\ call' = call
    /\ UNCHANGED <<ctxvars, fi_open, crashed>>

\* one turn of the loop: fi_write on ep_ to peer_fi_addr_ as they are now
SubmitPost ==
    /\ ~crashed
    /\ th.pc = "loop"
    /\ th.st.it <= Len(th.st.slice_list)
    /\ IF eps[1].ep_ = NULL
       THEN /\ crashed' = TRUE
            /\ UNCHANGED <<eps, th>>
       ELSE /\ \E ret \in FiWriteAnswers :
               \E st \in {PostOne([th.st EXCEPT
                                      !.wr_depth_ = eps[1].wr_depth_,
                                      !.posts = Append(@, [slice |-> th.st.slice_list[th.st.it],
                                                           fi_addr |-> eps[1].peer_fi_addr_,
                                                           status |-> eps[1].status_])],
                                  ret)} :
                /\ eps' = [eps EXCEPT ![1].wr_depth_ = st.wr_depth_]
                /\ th' = [th EXCEPT !.st = st]
            /\ UNCHANGED crashed
    /\ UNCHANGED <<ctxvars, av_tab, fi_open, call>>

\* the loop is over: return 0
SubmitReturn ==
    /\ ~crashed
    /\ th.pc = "loop"
    /\ th.st.it > Len(th.st.slice_list)
    /\ th' = IdleSubmit
    /\ call' = [NoCall EXCEPT !.op = "submitPostSend", !.id = 1, !.pre = eps[1],
                              !.av_pre = av_tab, !.posts = th.st.posts,
                              !.slice_list = th.st.slice_list,
                              !.failed_slice_list = th.st.failed_slice_list,
                              !.marked = th.st.marked]
    /\ UNCHANGED <<ctxvars, eps, av_tab, fi_open, crashed>>

\* disconnect from the other thread, at any point of the submission
RaceDisconnect ==
    /\ EpDisconnect(1)

NextRace ==
    \/ SubmitBegin
    \/ SubmitPost
    \/ SubmitReturn
    \/ RaceDisconnect

SpecRace == InitRace /\ [][NextRace]_vars

----------------------------------------------------------------------------
\* The writes of disconnect, setPeerNicPath and connection setup to one
\* endpoint, one write per step. The writers hold the endpoint's lock_, so one
\* of them runs at a time; connected() and submitPostSend read status_ and
\* peer_fi_addr_ without the lock and can see the endpoint between two steps.

IdleWriter ==
    [pc |-> "idle", after |-> "idle", p |-> << >>, peer_desc |-> EmptyDesc,
     peer_addr |-> << >>, ins |-> NoInsert]

\* disconnectUnlocked, first statement
clearPeerFiAddr(e) == [e EXCEPT !.peer_fi_addr_ = FI_ADDR_UNSPEC]
\* disconnectUnlocked, second statement
storeUnconnected(e) == [e EXCEPT !.status_ = UNCONNECTED]
\* status_.store(CONNECTED) of the setup functions
storeConnected(e) == [e EXCEPT !.status_ = CONNECTED]

InitSteps ==
    /\ \E r \in {ctxConstruct(1, [step |-> "none", k |-> 0], {})} :
       \E p \in PeerPaths :
       \E c \in {construct(NewEndPoint, r.fids, 1, r.cq_list_[1], "none")} :
        /\ hints_ = r.hints_ /\ fi_info_ = r.fi_info_ /\ fabric_ = r.fabric_
        /\ domain_ = r.domain_ /\ av_ = r.av_ /\ cq_list_ = r.cq_list_
        /\ fi_open = c.fids
        /\ eps = <<setPeerNicPath(c.e, p)>>
    /\ mr_map_ = EmptyMap
    /\ endpoint_store_ = NewStore
    /\ av_tab = << >>
    /\ th = IdleWriter
    /\ call = NoCall
    /\ crashed = FALSE

\* disconnect takes the lock
StepDisconnect ==
    /\ th.pc = "idle"
    /\ th' = [IdleWriter EXCEPT !.pc = "clear", !.after = "idle"]
    /\ UNCHANGED <<ctxvars, eps, av_tab, fi_open, call, crashed>>

\* setPeerNicPath takes the lock and tests connected()
StepSetPeerNicPath ==
    /\ th.pc = "idle"
    /\ \E p \in PeerPaths :
        th' = [IdleWriter EXCEPT !.pc = IF connected(eps[1]) THEN "clear" ELSE "path",
                                 !.after = "path", !.p = p]
    /\ UNCHANGED <<ctxvars, eps, av_tab, fi_open, call, crashed>>

\* setupConnectionsByActive from the lock to its call of insertPeerAddr, or to
\* its return when it does not get that far
StepActive ==
    /\ th.pc = "idle"
    /\ \E a \in ActiveAnswers(eps[1]) :
       \E r \in {setupConnectionsByActive(eps[1], av_tab, a[1], a[2])} :
        th' = IF r.inserts = << >>
              THEN IdleWriter
              ELSE [IdleWriter EXCEPT !.pc = "insert", !.peer_addr = r.inserts[1],
                                      !.ins = a[2]]
    /\ UNCHANGED <<ctxvars, eps, av_tab, fi_open, call, crashed>>

\* setupConnectionsByPassive takes the lock and tests connected()
StepPassive ==
    /\ th.pc = "idle"
    /\ \E peer_desc \in PassiveRequests :
        th' = [IdleWriter EXCEPT !.pc = IF connected(eps[1]) THEN "clear" ELSE "validate",
                                 !.after = "validate", !.peer_desc = peer_desc]
    /\ UNCHANGED <<ctxvars, eps, av_tab, fi_open, call, crashed>>

\* peer_fi_addr_ = FI_ADDR_UNSPEC
StepClearPeer ==
    /\ th.pc = "clear"
    /\ eps' = [eps EXCEPT ![1] = clearPeerFiAddr(eps[1])]
    /\ th' = [th EXCEPT !.pc = "store_unconnected"]
    /\ UNCHANGED <<ctxvars, av_tab, fi_open, call, crashed>>

\* status_.store(UNCONNECTED)
StepStoreUnconnected ==
    /\ th.pc = "store_unconnected"
    /\ eps' = [eps EXCEPT ![1] = storeUnconnected(eps[1])]
    /\ th' = IF th.after = "idle" THEN IdleWriter ELSE [th EXCEPT !.pc = th.after]
    /\ UNCHANGED <<ctxvars, av_tab, fi_open, call, crashed>>

\* peer_nic_path_ = peer_nic_path
StepStorePath ==
    /\ th.pc = "path"
    /\ eps' = [eps EXCEPT ![1].peer_nic_path_ = th.p]
    /\ th' = IdleWriter
    /\ UNCHANGED <<ctxvars, av_tab, fi_open, call, crashed>>

\* the tests of setupConnectionsByPassive on the request
StepValidate ==
    /\ th.pc = "validate"
    /\ \E ins \in PassiveAnswers(eps[1], th.peer_desc) :
        th' = IF ins = NoInsert
              THEN IdleWriter
              ELSE [th EXCEPT !.pc = "insert", !.peer_addr = th.peer_desc.reply_msg,
                              !.ins = ins]
    /\ UNCHANGED <<ctxvars, eps, av_tab, fi_open, call, crashed>>

\* insertPeerAddr: fi_av_insert writes peer_fi_addr_
StepInsert ==
    /\ th.pc = "insert"
    /\ \E r \in {insertPeerAddr(eps[1], av_tab, th.peer_addr, th.ins)} :
        /\ eps' = [eps EXCEPT ![1] = r.e]
        /\ av_tab' = r.av
        /\ th' = IF r.ret # RET_OK THEN IdleWriter ELSE [th EXCEPT !.pc = "store_connected"]
    /\ UNCHANGED <<ctxvars, fi_open, call, crashed>>

\* status_.store(CONNECTED)
StepStoreConnected ==
    /\ th.pc = "store_connected"
    /\ eps' = [eps EXCEPT ![1] = storeConnected(eps[1])]
    /\ th' = IdleWriter
    /\ UNCHANGED <<ctxvars, av_tab, fi_open, call, crashed>>

NextSteps ==
    \/ StepDisconnect
    \/ StepSetPeerNicPath
    \/ StepActive
    \/ StepPassive
    \/ StepClearPeer
    \/ StepStoreUnconnected
    \/ StepStorePath
    \/ StepValidate
    \/ StepInsert
    \/ StepStoreConnected

SpecSteps == InitSteps /\ [][NextSteps]_vars

----------------------------------------------------------------------------
\* Properties.

Range(seq) == {seq[i] : i \in 1..Len(seq)}
CountOf(seq, x) == Cardinality({i \in 1..Len(seq) : seq[i] = x})
\* the endpoint the last call ran on, as the call left it
post == eps[call.id]
\* the address the endpoint's peer handle resolves to in the address vector
BoundTo(e, addr) ==
    /\ e.peer_fi_addr_ \in 0..(Len(av_tab) - 1)
    /\ av_tab[e.peer_fi_addr_ + 1] = addr

CtxHandlesValid ==
    /\ \A h \in {fabric_, domain_, av_} : h # NULL /\ h \in fi_open
    /\ \A i \in 1..Len(cq_list_) : cq_list_[i] # NULL /\ cq_list_[i] \in fi_open
CtxHandlesNull ==
    /\ fabric_ = NULL /\ domain_ = NULL /\ av_ = NULL
    /\ \A i \in 1..Len(cq_list_) : cq_list_[i] = NULL
    /\ \A f \in fi_open : f[1] \notin {"fabric", "domain", "av", "cq"}

\* C1: every return of EfaContext::construct leaves the fabric, domain,
\* address-vector and completion-queue handles all valid (on success) or all
\* null and released (on ERR_CONTEXT), whichever step failed.
C1_ConstructAllOrNothing ==
    call.op = "EfaContext::construct" =>
        \/ call.ret = RET_OK /\ CtxHandlesValid
        \/ call.ret = ERR_CONTEXT /\ CtxHandlesNull

SubmitReturned == call.op = "submitPostSend" /\ ~crashed

\* C2: submitPostSend on a connected endpoint: a slice whose post returned
\* queue-full is still in the input list, not marked successful and not in the
\* failed list; a slice whose post succeeded is removed and marked successful;
\* wr_depth_ grew by exactly the number of successful posts.
C2_QueueFullStaysSuccessCounts ==
    (SubmitReturned /\ connected(call.pre)) =>
        /\ Len(call.posts) = Len(call.resp)
        /\ \A j \in 1..Len(call.posts) :
            LET slice == call.posts[j].slice
            IN  /\ call.resp[j] = FI_EAGAIN =>
                    /\ slice \in Range(call.slice_list)
                    /\ slice \notin call.marked
                    /\ slice \notin Range(call.failed_slice_list)
                /\ call.resp[j] = FI_SUCCESS =>
                    /\ slice \notin Range(call.slice_list)
                    /\ slice \in call.marked
        /\ post.wr_depth_ = call.pre.wr_depth_ + CountOf(call.resp, FI_SUCCESS)

C2_Witness ==
    /\ SubmitReturned /\ connected(call.pre)
    /\ call.resp = <<FI_EAGAIN, FI_SUCCESS>>
    /\ call.slice_list = <<1>>
    /\ call.marked = {2}
    /\ post.wr_depth_ = call.pre.wr_depth_ + 1

\* the error setupConnectionsByActive reports for the answers the call consumed
EstablishmentError ==
    IF isLoopback(call.pre) THEN ERR_ENDPOINT
    ELSE IF call.sent = << >> THEN ERR_INVALID_ARGUMENT
    ELSE IF call.hs.rc # RET_OK THEN call.hs.rc
    ELSE IF call.hs.reply_msg = << >> THEN ERR_REJECT_HANDSHAKE
    ELSE ERR_ENDPOINT

\* C3: submitPostSend on an endpoint that is not connected, whose connection
\* establishment fails: every input slice is in the failed list, the input list
\* is empty, the establishment error is returned, nothing was posted, no slice
\* is marked successful and wr_depth_ is unchanged.
C3_NoConnectionFailsAll ==
    (SubmitReturned /\ ~connected(call.pre) /\ ~connected(post)) =>
        /\ call.failed_slice_list = call.in_failed \o call.in_slices
        /\ call.slice_list = << >>
        /\ call.ret # RET_OK /\ call.ret = EstablishmentError
        /\ call.posts = << >>
        /\ call.marked = {}
        /\ post.wr_depth_ = call.pre.wr_depth_

C3_Witness ==
    /\ SubmitReturned /\ ~connected(call.pre) /\ ~connected(post)
    /\ Len(call.in_slices) = 2
    /\ call.ret = ERR_REJECT_HANDSHAKE

\* C4: submitPostSend on a connected endpoint: a slice whose post returned a
\* hard error is in the failed list and out of the input list, every input
\* slice was posted once in order, the call returns success, and the input
\* list holds exactly the slices that received queue-full.
C4_HardErrorDoesNotAbort ==
    (SubmitReturned /\ connected(call.pre)) =>
        /\ [j \in 1..Len(call.posts) |-> call.posts[j].slice] = call.in_slices
        /\ \A i \in 1..Len(call.in_slices) :
            call.resp[i] = FI_EIO =>
                /\ call.in_slices[i] \in Range(call.failed_slice_list)
                /\ call.in_slices[i] \notin Range(call.slice_list)
        /\ call.ret = RET_OK
        /\ Range(call.slice_list) =
               {call.in_slices[i] : i \in {k \in 1..Len(call.in_slices) : call.resp[k] = FI_EAGAIN}}
        /\ Len(call.slice_list) = CountOf(call.resp, FI_EAGAIN)

C4_Witness ==
    /\ SubmitReturned /\ connected(call.pre)
    /\ call.resp = <<FI_EIO, FI_EAGAIN>>

PassiveMismatch ==
    /\ call.op = "setupConnectionsByPassive"
    /\ \/ call.peer_desc.peer_nic_path # nicPath
       \/ call.peer_desc.local_nic_path # call.pre.peer_nic_path_

\* C5: setupConnectionsByPassive with a request whose paths do not match
\* returns ERR_REJECT_HANDSHAKE with an empty reply payload and leaves the
\* connection state as it was, whatever the state was.
C5_MismatchKeepsState ==
    PassiveMismatch =>
        /\ call.ret = ERR_REJECT_HANDSHAKE
        /\ call.local_desc.reply_msg = << >>
        /\ post.status_ = call.pre.status_

ActiveOnUnconnected ==
    /\ call.op = "setupConnectionsByActive"
    /\ call.pre.status_ = UNCONNECTED
    /\ call.pre.peer_nic_path_ # nicPath

\* the request of the claim: the own path, the peer path, the own address in hex
SentOneRequest ==
    /\ Len(call.sent) = 1
    /\ call.sent[1].desc.local_nic_path = nicPath
    /\ call.sent[1].desc.peer_nic_path = call.pre.peer_nic_path_
    /\ Len(call.sent[1].desc.reply_msg) = 2 * Len(call.pre.local_addr_)
    /\ HexDecode(call.sent[1].desc.reply_msg) = call.pre.local_addr_
    /\ \A i \in 1..Len(call.sent[1].desc.reply_msg) :
           call.sent[1].desc.reply_msg[i] \in Range(HexLower)

HandshakeOutcomes ==
    /\ (call.hs.rc = RET_OK /\ call.hs.reply_msg = << >>) =>
           call.ret = ERR_REJECT_HANDSHAKE /\ post.status_ = UNCONNECTED
    /\ (call.hs.rc # RET_OK) =>
           call.ret = call.hs.rc /\ post.status_ = UNCONNECTED

\* C6, as stated: setupConnectionsByActive on an UNCONNECTED endpoint with a
\* non-loopback peer sends one handshake; a nonempty reply address Y leaves the
\* endpoint CONNECTED with its peer handle bound to Y; an empty reply gives
\* ERR_REJECT_HANDSHAKE and a transport error is returned, state UNCONNECTED.
C6_AsStated ==
    ActiveOnUnconnected =>
        /\ SentOneRequest
        /\ HandshakeOutcomes
        /\ (call.hs.rc = RET_OK /\ call.hs.reply_msg # << >>) =>
               /\ post.status_ = CONNECTED
               /\ BoundTo(post, HexDecode(call.hs.reply_msg))

WellFormedPath(path) ==
    \E i \in 2..(Len(path) - 1) : path[i] = "@" /\ \A j \in 1..(i - 1) : path[j] # "@"

\* C6, amended: the handshake is sent when the peer path has the form
\* server@device, and a malformed path gives ERR_INVALID_ARGUMENT with nothing
\* sent; a nonempty reply address Y leaves the endpoint CONNECTED and bound to
\* Y when the address-vector insertion succeeds, and gives ERR_ENDPOINT with
\* the state UNCONNECTED when it fails.
C6_ActiveHandshake ==
    ActiveOnUnconnected =>
        /\ WellFormedPath(call.pre.peer_nic_path_) =>
            /\ SentOneRequest
            /\ HandshakeOutcomes
            /\ (call.hs.rc = RET_OK /\ call.hs.reply_msg # << >>) =>
                IF Len(av_tab) > Len(call.av_pre)
                THEN /\ call.ret = RET_OK
                     /\ post.status_ = CONNECTED
                     /\ BoundTo(post, HexDecode(call.hs.reply_msg))
                ELSE /\ call.ret = ERR_ENDPOINT
                     /\ post.status_ = UNCONNECTED
        /\ ~WellFormedPath(call.pre.peer_nic_path_) =>
            /\ call.sent = << >>
            /\ call.ret = ERR_INVALID_ARGUMENT
            /\ post.status_ = UNCONNECTED

C6_Witness ==
    /\ ActiveOnUnconnected
    /\ Len(call.sent) = 1
    /\ call.hs.reply_msg = <<"0", "1", "f", "E">>
    /\ post.status_ = CONNECTED
    /\ BoundTo(post, <<1, 254>>)

LoopbackSetup ==
    /\ call.op = "setupConnectionsByActive"
    /\ ~connected(call.pre)
    /\ call.pre.peer_nic_path_ = nicPath

\* C7, as stated: connection establishment on an endpoint whose peer path is
\* the own path inserts the own address, leaves the endpoint CONNECTED and
\* sends no handshake.
C7_AsStated ==
    LoopbackSetup =>
        /\ call.sent = << >>
        /\ post.status_ = CONNECTED
        /\ BoundTo(post, call.pre.local_addr_)

\* C7, amended: no handshake is sent; the own address is handed to the
\* address vector, and the endpoint becomes CONNECTED bound to it when that
\* insertion succeeds, while a failed insertion gives ERR_ENDPOINT and leaves
\* the connection state as it was.
C7_Loopback ==
    LoopbackSetup =>
        /\ call.sent = << >>
        /\ Len(call.inserts) = 1
        /\ HexDecode(call.inserts[1]) = call.pre.local_addr_
        /\ IF Len(av_tab) > Len(call.av_pre)
           THEN /\ call.ret = RET_OK
                /\ post.status_ = CONNECTED
                /\ BoundTo(post, call.pre.local_addr_)
           ELSE /\ call.ret = ERR_ENDPOINT
                /\ post.status_ = call.pre.status_

C7_Witness ==
    /\ LoopbackSetup
    /\ call.pre.status_ = UNCONNECTED
    /\ post.status_ = CONNECTED
    /\ BoundTo(post, LocalName)

\* C8: setupConnectionsByActive on a CONNECTED endpoint returns success, sends
\* no handshake, inserts nothing, and leaves the connection state and the peer
\* handle as they were.
C8_ActiveWhenConnectedIsNoOp ==
    (call.op = "setupConnectionsByActive" /\ connected(call.pre)) =>
        /\ call.ret = RET_OK
        /\ call.sent = << >>
        /\ call.inserts = << >>
        /\ av_tab = call.av_pre
        /\ post.status_ = CONNECTED
        /\ post.peer_fi_addr_ = call.pre.peer_fi_addr_

C8_Witness ==
    /\ call.op = "setupConnectionsByActive" /\ connected(call.pre)
    /\ call.pre.peer_nic_path_ = PathB
    /\ call.pre.peer_fi_addr_ # FI_ADDR_UNSPEC

PassiveMatch ==
    /\ call.op = "setupConnectionsByPassive"
    /\ call.peer_desc.peer_nic_path = nicPath
    /\ call.peer_desc.local_nic_path = call.pre.peer_nic_path_
    /\ call.peer_desc.reply_msg # << >>

\* the endpoint is CONNECTED and bound to the slot this call inserted the
\* request's address into, and the reply names this endpoint
PassiveEstablished ==
    /\ call.ret = RET_OK
    /\ post.status_ = CONNECTED
    /\ BoundTo(post, HexDecode(call.peer_desc.reply_msg))
    /\ post.peer_fi_addr_ = Len(call.av_pre)
    /\ post.peer_fi_addr_ # call.pre.peer_fi_addr_
    /\ call.local_desc.local_nic_path = nicPath
    /\ call.local_desc.peer_nic_path = call.pre.peer_nic_path_
    /\ Len(call.local_desc.reply_msg) = 2 * Len(call.pre.local_addr_)
    /\ HexDecode(call.local_desc.reply_msg) = call.pre.local_addr_

\* C9, as stated: a passive request whose paths match and whose address is
\* nonempty leaves the endpoint CONNECTED and bound to the request's address,
\* not to an earlier one, with the reply holding the own path, the peer path
\* and the own address in hex.
C9_AsStated ==
    PassiveMatch => PassiveEstablished

\* C9, amended: that holds when the address-vector insertion succeeds; when it
\* fails the call returns ERR_ENDPOINT with an empty reply payload and the
\* endpoint is not CONNECTED.
C9_PassiveEstablishes ==
    PassiveMatch =>
        IF Len(av_tab) > Len(call.av_pre)
        THEN PassiveEstablished
        ELSE /\ call.ret = ERR_ENDPOINT
             /\ call.local_desc.reply_msg = << >>
             /\ post.status_ # CONNECTED

C9_Witness ==
    /\ PassiveMatch
    /\ connected(call.pre)
    /\ BoundTo(post, HexDecode(call.peer_desc.reply_msg))
    /\ call.av_pre[call.pre.peer_fi_addr_ + 1] # HexDecode(call.peer_desc.reply_msg)
    /\ post.status_ = CONNECTED

\* C10: callers of endpoint(p) for the same path p, with no remove of p in
\* between, all receive the same endpoint instance, the one the store holds
\* under p.
C10_OneEndpointPerPath ==
    \A t \in Threads :
        (th[t].pc = "done" /\ th[t].result # NoEp /\ ~th[t].removed) =>
            /\ get(endpoint_store_, th[t].peer_nic_path) = th[t].result
            /\ \A u \in Threads :
                (u # t /\ th[u].pc = "done" /\ th[u].result # NoEp /\ ~th[u].removed
                 /\ th[u].peer_nic_path = th[t].peer_nic_path) =>
                    th[u].result = th[t].result

\* C11: every endpoint in the store, and every endpoint EfaContext::endpoint
\* returned, has left INITIALIZING; a call whose construct failed returned null
\* and its object is not in the store.
C11_NoPartialEndpointPublished ==
    /\ \A p \in DOMAIN endpoint_store_.endpoints_ :
        eps[endpoint_store_.endpoints_[p]].status_ # INITIALIZING
    /\ \A t \in Threads :
        (th[t].pc = "done" /\ th[t].result # NoEp) =>
            eps[th[t].result].status_ # INITIALIZING

\* C12: on the endpoint store, get(p) after add(p, e) returns the instance e,
\* get(p) after remove(p) returns not-found, a hit returns the stored instance
\* and changes nothing, and none of them changes what get returns for another
\* path q.
C12_StoreGetAddRemove ==
    /\ (call.op = "endpoint" /\ call.store_pre.set /\ get(call.store_pre, call.arg) # NoEp) =>
        /\ call.result = get(call.store_pre, call.arg)
        /\ endpoint_store_ = call.store_pre
    /\ (call.op = "endpoint" /\ call.store_pre.set /\ get(call.store_pre, call.arg) = NoEp
        /\ call.result # NoEp) =>
        /\ get(endpoint_store_, call.arg) = call.result
        /\ call.result \notin StoredIds(call.store_pre)
        /\ \A q \in StorePaths \ {call.arg} :
            get(endpoint_store_, q) = get(call.store_pre, q)
    /\ (call.op = "deleteEndpoint" /\ call.store_pre.set) =>
        /\ get(endpoint_store_, call.arg) = NoEp
        /\ \A q \in StorePaths \ {call.arg} :
            get(endpoint_store_, q) = get(call.store_pre, q)

\* an add of a second path next to a stored one
C12_Witness ==
    /\ call.op = "endpoint"
    /\ get(call.store_pre, call.arg) = NoEp
    /\ size(call.store_pre) = 1
    /\ size(endpoint_store_) = 2
    /\ get(endpoint_store_, call.arg) = call.result

TraceRank(ev) ==
    CASE ev[1] = "disconnect" -> 0
      [] ev[1] = "mr" -> 1
      [] ev[1] = "cq" -> 2
      [] ev[1] = "av" -> 3
      [] ev[1] = "domain" -> 4
      [] ev[1] = "fabric" -> 5
      [] OTHER -> 6

C16_TeardownDisconnectsAll ==
    call.op = "EfaContext::deconstruct" =>
        \A id \in 1..Len(eps) :
            eps[id].status_ # CONNECTED /\ eps[id].peer_fi_addr_ = FI_ADDR_UNSPEC

\* C17: disconnectAll removes no entry (same paths, same instances, same size)
\* and leaves every stored endpoint UNCONNECTED.
C17_DisconnectAllKeepsEntries ==
    call.op = "disconnectAll" =>
        /\ endpoint_store_ = call.store_pre
        /\ size(endpoint_store_) = size(call.store_pre)
        /\ \A p \in DOMAIN call.store_pre.endpoints_ :
            /\ get(endpoint_store_, p) = get(call.store_pre, p)
            /\ eps[get(endpoint_store_, p)].status_ = UNCONNECTED

\* disconnectAll on a store of two endpoints, one of them connected
C17_Witness ==
    /\ call.op = "disconnectAll"
    /\ size(call.store_pre) = 2
    /\ \E id \in StoredIds(call.store_pre) : call.eps_pre[id].status_ = CONNECTED
    /\ \A id \in StoredIds(endpoint_store_) : eps[id].status_ = UNCONNECTED

\* C13: after a successful unregisterMemoryRegion(a), rkey(a) and lkey(a)
\* are 0, and so is every key lookup of an address that is not registered;
\* unregisterMemoryRegion of an address that is not registered (a second
\* unregister included) returns 0, closes no handle and leaves the registry
\* as it was.
C13_UnregisterIdempotent ==
    /\ (call.op = "unregisterMemoryRegion" /\ call.ret = RET_OK) =>
        /\ rkey(mr_map_, call.arg[1]) = 0
        /\ lkey(mr_map_, call.arg[1]) = 0
        /\ call.arg[1] \notin DOMAIN mr_map_
    /\ (call.op = "unregisterMemoryRegion" /\ call.arg[1] \notin DOMAIN call.mr_pre) =>
        /\ call.ret = RET_OK
        /\ call.closes = << >>
        /\ mr_map_ = call.mr_pre
        /\ fi_open = call.fids_pre
    /\ (call.op = "rkey/lkey" /\ call.arg[1] \notin DOMAIN mr_map_) =>
        call.arg[2] = 0 /\ call.arg[3] = 0

\* a second unregister of an address right after the one that removed it
C13_Witness ==
    /\ call.op = "unregisterMemoryRegion"
    /\ call.repeat
    /\ call.ret = RET_OK
    /\ call.arg[1] \notin DOMAIN call.mr_pre
    /\ call.mr_pre # EmptyMap
    /\ call.closes = << >>

NoDuplicates(seq) == \A i, j \in 1..Len(seq) : seq[i] = seq[j] => i = j

\* C14: EfaContext::deconstruct returns 0 and leaves the fabric, domain and
\* address-vector handles null, the completion-queue list and the registry
\* empty; it closes only handles that are open, each once; on a context that
\* is already torn down it closes nothing and changes nothing.
C14_DeconstructIdempotent ==
    call.op = "EfaContext::deconstruct" =>
        /\ call.ret = RET_OK
        /\ fabric_ = NULL /\ domain_ = NULL /\ av_ = NULL
        /\ fi_info_ = NULL /\ hints_ = NULL
        /\ cq_list_ = << >>
        /\ mr_map_ = EmptyMap
        /\ NoDuplicates(call.closes)
        /\ Range(call.closes) \subseteq call.fids_pre
        /\ fi_open = call.fids_pre \ Range(call.closes)
        /\ call.repeat => (call.closes = << >> /\ fi_open = call.fids_pre)

\* a second deconstruct of a context that had been constructed
C14_Witness ==
    /\ call.op = "EfaContext::deconstruct"
    /\ call.repeat
    /\ endpoint_store_.set
    /\ call.arg = <<NULL, NULL, NULL, << >> >>
    /\ call.closes = << >>

EndpointOps ==
    {"construct", "setPeerNicPath", "setupConnectionsByActive",
     "setupConnectionsByPassive", "disconnect", "submitPostSend"}

\* C19: a call on an endpoint changes its connection state only along
\* INITIALIZING -> UNCONNECTED by a successful construct, UNCONNECTED ->
\* CONNECTED by a successful establishment, and CONNECTED -> UNCONNECTED by a
\* disconnect (that of disconnect itself or the one another call performs);
\* INITIALIZING is left only through a successful construct and never
\* entered again.
C19_StateMachine ==
    (call.op \in EndpointOps /\ post.status_ # call.pre.status_) =>
        \/ /\ call.pre.status_ = INITIALIZING /\ post.status_ = UNCONNECTED
           /\ call.op = "construct" /\ call.ret = RET_OK
        \/ /\ call.pre.status_ = UNCONNECTED /\ post.status_ = CONNECTED
           /\ call.op \in {"setupConnectionsByActive", "setupConnectionsByPassive",
                           "submitPostSend"}
           /\ call.ret = RET_OK
        \/ /\ call.pre.status_ = CONNECTED /\ post.status_ = UNCONNECTED
           /\ call.op \in {"disconnect", "setPeerNicPath", "setupConnectionsByPassive"}

\* the call attempted an address insertion and it failed
InsertFailed ==
    /\ call.op \in {"setupConnectionsByActive", "setupConnectionsByPassive"}
    /\ call.inserts # << >>
    /\ Len(av_tab) = Len(call.av_pre)

\* C20: when insertPeerAddr fails inside setupConnectionsByActive or
\* setupConnectionsByPassive, the call returns ERR_ENDPOINT and the endpoint's
\* connection state is the one it had when the call began.
C20_InsertFailureKeepsState ==
    InsertFailed =>
        /\ call.ret = ERR_ENDPOINT
        /\ post.status_ = call.pre.status_

\* C18: whatever disconnect does in between, submitPostSend posts an RDMA
\* write only while the endpoint is CONNECTED and its peer handle is resolved.
C18_NoPostAfterDisconnect ==
    \A i \in 1..Len(th.st.posts) :
        /\ th.st.posts[i].status = CONNECTED
        /\ th.st.posts[i].fi_addr # FI_ADDR_UNSPEC

\* C21: the provider's open memory-region handles are exactly the handles the
\* registry records, one per entry: a handle registerMemoryRegion opened is in
\* the registry or has been closed.
C21_RegistryOwnsOpenRegions ==
    /\ fi_open \cap MrFids = {mr_map_[a].mr : a \in DOMAIN mr_map_}
    /\ Cardinality(fi_open \cap MrFids) = Cardinality(DOMAIN mr_map_)

\* C22: at every point a lock-free reader can observe, between the writes of
\* disconnect, setPeerNicPath and connection setup included, an endpoint whose
\* state reads CONNECTED has a resolved peer handle.
C22_ConnectedHasPeerHandle ==
    eps[1].status_ = CONNECTED => eps[1].peer_fi_addr_ # FI_ADDR_UNSPEC

====
